---- MODULE Spec2Model ----
(***************************************************************************)
(* Cart and checkout services of the QKart backend.                        *)
(*                                                                         *)
(* The repository holds two copies of the cart service:                    *)
(*   impl = "A"  services/cart.service.js                                  *)
(*   impl = "B"  the second copy (unnamed/part_001)                        *)
(* They differ in updateProductInCart (last match / first match) and in    *)
(* deleteProductFromCart (splice and save / updateOne with $pull).         *)
(*                                                                         *)
(* Every request is a process: the caller loads the user document, calls   *)
(* one service function, and the function runs from one await to the next. *)
(* Each await on the store is one step.  A store write may fail (the       *)
(* promise rejects and the handler throws); reads of the store succeed.    *)
(*                                                                         *)
(* Document#save sends the changes made to the in-memory document:         *)
(*   cartItems.push(x)          -> $push x, $inc __v                       *)
(*   cartItems[i].quantity = q  -> $set cartItems.i.quantity where __v     *)
(*   cartItems.splice / = []    -> $set cartItems, $inc __v where __v      *)
(*   user.walletMoney = b       -> $set walletMoney                        *)
(* A write "where __v" that finds the version changed throws VersionError. *)
(***************************************************************************)
EXTENDS Integers, Sequences, FiniteSets, TLC

VARIABLES impl, users, carts, req, pre, nops

vars == <<impl, users, carts, req, pre, nops>>

(* ------------------------------ bounds --------------------------------- *)

\* Largest quantity a caller supplies; the smallest is -1 (quantities are
\* not validated by the service).
MaxQty == 1

\* Number of requests issued in one behaviour.
MaxOps == 3

\* walletMoney of a user when the behaviour starts.
InitWallet == 10

(* ------------------------------ data ----------------------------------- *)

Impls == {"A", "B"}

Procs == {"r1", "r2"}

\* The process that issues the requests of the sequential specification.
SeqProc == "r1"

Users == {"u1", "u2"}

\* Ids of the products collection.
Catalog == {"p1", "p2"}

\* Ids a caller may supply: "px" is not in the products collection.
ProductIds == Catalog \cup {"px"}

Quantities == (0 - 1)..MaxQty

Cost(pid) == IF pid = "p1" THEN 10 ELSE 5

DefaultAddress == "default_address"

NoProduct == [_id |-> "null", cost |-> 0]

\* Product.findById / Product.findOne({_id})
FindProduct(pid) ==
    IF pid \in Catalog THEN [_id |-> pid, cost |-> Cost(pid)] ELSE NoProduct

\* The in-memory cart of a handler: idx = 0 is null, otherwise the position
\* of the document in the user's carts.
NullCart == [idx |-> 0, cartItems |-> <<>>, v |-> 0]

\* Cart.findOne({email}): the first document of that email, or null.
FindOne(cs) ==
    IF cs = <<>> THEN NullCart
    ELSE [idx |-> 1, cartItems |-> cs[1].cartItems, v |-> cs[1].v]

\* Cart.create({email, cartItems: []})
NewCartDoc == [cartItems |-> <<>>, v |-> 0]

IdleReq ==
    [pc |-> "idle", op |-> "none", email |-> "none", productId |-> "none",
     quantity |-> 0,
     user |-> [walletMoney |-> 0, address |-> "none", password |-> 0],
     cart |-> NullCart, index |-> 0, result |-> "none",
     userSave |-> "none", cartSave |-> "none"]

\* pre[p] is the store as it was when p's request arrived (kept to state
\* what a request changed); NoPre while p has no request.
NoPre == [users |-> [u \in Users |-> IdleReq.user],
          carts |-> [u \in Users |-> <<>>]]

(* --------------------------- pure helpers ------------------------------ *)

Max(S) == CHOOSE x \in S : \A y \in S : y <= x

Min(S) == CHOOSE x \in S : \A y \in S : x <= y

\* Positions of the items whose product._id == productId.
Matches(items, pid) == {i \in 1..Len(items) : items[i].product._id = pid}

\* The loop of copy A: productIndex is overwritten on every match, so it
\* ends as the last match (0 here for the code's -1).
ProductIndexLast(items, pid) ==
    IF Matches(items, pid) = {} THEN 0 ELSE Max(Matches(items, pid))

\* The loop of copy B's update: acts on the first match and returns.
ProductIndexFirst(items, pid) ==
    IF Matches(items, pid) = {} THEN 0 ELSE Min(Matches(items, pid))

\* The scan with a comparison that never matches (=== between the id string
\* and the stored ObjectId).
AlreadyInCart_StrictEq(items, pid) == FALSE

\* addProductToCart: the product is already a line of the cart.
AlreadyInCart(items, pid) == Matches(items, pid) # {}

\* cart.cartItems.push({product, quantity})
PushItem(items, product, quantity) ==
    Append(items, [product |-> product, quantity |-> quantity])

\* cart.cartItems[i].quantity += quantity
SetQuantity_Add(items, i, quantity) ==
    [items EXCEPT ![i] = [@ EXCEPT !.quantity = @ + quantity]]

\* cart.cartItems[i].quantity = quantity
SetQuantity(items, i, quantity) ==
    [items EXCEPT ![i] = [@ EXCEPT !.quantity = quantity]]

\* cart.cartItems.splice(i, 1)
Splice(items, i) ==
    [k \in 1..(Len(items) - 1) |-> IF k < i THEN items[k] ELSE items[k + 1]]

\* The sum with the quantity left out of the product.
RECURSIVE TotalCost_NoQuantity(_)
TotalCost_NoQuantity(items) ==
    IF items = <<>> THEN 0
    ELSE items[1].product.cost + TotalCost_NoQuantity(Tail(items))

\* checkout: sum over the items of quantity * product.cost
RECURSIVE TotalCost(_)
TotalCost(items) ==
    IF items = <<>> THEN 0
    ELSE items[1].quantity * items[1].product.cost + TotalCost(Tail(items))

\* The comparison with its operands swapped.
BalanceInsufficient_Swapped(total, walletMoney) == walletMoney > total

\* checkout: balance = walletMoney - total; balance < 0 (A),
\* totalCost > walletMoney (B)
BalanceInsufficient(total, walletMoney) == total > walletMoney

\* user.hasSetNonDefaultAddress()
HasSetNonDefaultAddress(user) == user.address # DefaultAddress

\* The checks with the balance compared before the address is looked at.
\* checkout without the test of an empty cart.
CheckoutGate_NoEmptyCheck(cart, user) ==
    IF cart.idx = 0 THEN "NotFound"
    ELSE IF ~HasSetNonDefaultAddress(user) THEN "AddressNotSet"
    ELSE IF BalanceInsufficient(TotalCost(cart.cartItems), user.walletMoney)
         THEN "InsufficientBalance"
    ELSE "pass"

CheckoutGate_BalanceFirst(cart, user) ==
    IF cart.idx = 0 THEN "NotFound"
    ELSE IF Len(cart.cartItems) = 0 THEN "EmptyCart"
    ELSE IF BalanceInsufficient(TotalCost(cart.cartItems), user.walletMoney)
         THEN "InsufficientBalance"
    ELSE IF ~HasSetNonDefaultAddress(user) THEN "AddressNotSet"
    ELSE "pass"

\* checkout: the checks in the order the code makes them; "pass" when none
\* throws.
CheckoutGate(cart, user) ==
    IF cart.idx = 0 THEN "NotFound"
    ELSE IF Len(cart.cartItems) = 0 THEN "EmptyCart"
    ELSE IF ~HasSetNonDefaultAddress(user) THEN "AddressNotSet"
    ELSE IF BalanceInsufficient(TotalCost(cart.cartItems), user.walletMoney)
         THEN "InsufficientBalance"
    ELSE "pass"

\* The assignment forgotten: the cart is saved as it was read.
EmptyCartItems_Kept(items) == items

\* checkout: cart.cartItems = [] (the items the cart holds afterwards)
EmptyCartItems(items) == <<>>

\* checkout: await user.save() rejects -> the handler throws before
\* cart.save() is reached.
AfterUserSave(ok) == IF ok THEN "chk_save_cart" ELSE "done"

\* cart.save() not awaited: its rejection never reaches the caller.
CheckoutResult_NotAwaited(ok) == "OK"

\* checkout: the outcome reported once cart.save() has settled.
CheckoutResult(ok) == IF ok THEN "OK" ELSE "InfraError"

\* pre("save") hook of the user schema: the stored password is hashed again
\* on every save.  A password is modelled by the number of times the
\* original was hashed.
PreSaveHash(password) == password + 1

\* user.isPasswordMatch(original): bcrypt.compare of the original with the
\* stored hash.
IsPasswordMatch(password) == password = 1

(* ------------------------------ state ---------------------------------- *)

\* u1 has set an address; u2 still has the default address of a new user.
InitAddress(u) == IF u = "u1" THEN "home" ELSE DefaultAddress

Init ==
    /\ impl \in Impls
    /\ users = [u \in Users |-> [walletMoney |-> InitWallet,
                                  address |-> InitAddress(u),
                                  password |-> 1]]
    /\ carts = [u \in Users |-> <<>>]
    /\ req = [p \in Procs |-> IdleReq]
    /\ pre = [p \in Procs |-> NoPre]
    /\ nops = 0

\* The handler of p returns or throws: result r.
Finish(r, result) == [r EXCEPT !.pc = "done", !.result = result]

\* A request arrives: the caller has loaded the user document and calls the
\* service function with it.
Request(op, u, pid, q) ==
    [IdleReq EXCEPT !.pc = op, !.op = op, !.email = u, !.productId = pid,
                    !.quantity = q, !.user = users[u]]

\* The bound on requests is not used up, and p is the slot the next request
\* takes: the first free one (the slots are interchangeable).
CanCall(p) ==
    /\ nops < MaxOps
    /\ req[p].pc = "idle"
    /\ p = "r2" => req["r1"].pc # "idle"

Snapshot == [users |-> users, carts |-> carts]

\* The response is sent; the request's memory is dropped.
Return(p) ==
    /\ req[p].pc = "done"
    /\ req' = [req EXCEPT ![p] = IdleReq]
    /\ pre' = [pre EXCEPT ![p] = NoPre]
    /\ UNCHANGED <<impl, users, carts, nops>>

(* ---------------------------- getCartByUser ---------------------------- *)

\* A get-or-create: a missing cart is created and returned.
getCartByUser_Create(p) ==
    /\ CanCall(p)
    /\ \E u \in Users :
         LET cart == FindOne(carts[u])
         IN /\ carts' = IF cart.idx = 0
                        THEN [carts EXCEPT ![u] = Append(@, NewCartDoc)]
                        ELSE carts
            /\ req' = [req EXCEPT ![p] =
                         Finish([Request("get", u, "none", 0) EXCEPT
                                    !.cart = FindOne(carts'[u])], "OK")]
    /\ pre' = [pre EXCEPT ![p] = Snapshot]
    /\ nops' = nops + 1
    /\ UNCHANGED <<impl, users>>

getCartByUser(p) ==
    /\ CanCall(p)
    /\ \E u \in Users :
         LET cart == FindOne(carts[u])
         IN req' = [req EXCEPT ![p] =
                      Finish([Request("get", u, "none", 0) EXCEPT
                                 !.cart = cart],
                             IF cart.idx = 0 THEN "NotFound" ELSE "OK")]
    /\ pre' = [pre EXCEPT ![p] = Snapshot]
    /\ nops' = nops + 1
    /\ UNCHANGED <<impl, users, carts>>

(* --------------------------- addProductToCart -------------------------- *)

\* The scan without its rejection: a product already in the cart is pushed
\* as a further line.
AddScan_NoConflict(r, cart) ==
    IF FindProduct(r.productId) = NoProduct
    THEN [r EXCEPT !.pc = "done", !.result = "UnknownProduct", !.cart = cart]
    ELSE [r EXCEPT !.pc = "add_save",
                   !.cart = [cart EXCEPT !.cartItems =
                               PushItem(@, FindProduct(r.productId),
                                        r.quantity)]]

\* After the cart is in hand: the scan for the product, the product lookup
\* and the push.
AddScan(r, cart) ==
    IF AlreadyInCart(cart.cartItems, r.productId)
    THEN Finish([r EXCEPT !.cart = cart], "AlreadyInCart")
    ELSE IF FindProduct(r.productId) = NoProduct
    THEN Finish([r EXCEPT !.cart = cart], "UnknownProduct")
    ELSE [r EXCEPT !.pc = "add_save",
                   !.cart = [cart EXCEPT !.cartItems =
                               PushItem(@, FindProduct(r.productId),
                                        r.quantity)]]

\* The product looked up before the cart: an unknown product creates no cart.
AddFindOne_LookupFirst(p) ==
    /\ CanCall(p)
    /\ \E u \in Users, pid \in ProductIds, q \in Quantities :
         LET cart == FindOne(carts[u])
             r == Request("add", u, pid, q)
         IN req' = [req EXCEPT ![p] =
                      IF FindProduct(pid) = NoProduct
                      THEN Finish(r, "UnknownProduct")
                      ELSE IF cart.idx = 0 THEN [r EXCEPT !.pc = "add_create"]
                      ELSE AddScan(r, cart)]
    /\ pre' = [pre EXCEPT ![p] = Snapshot]
    /\ nops' = nops + 1
    /\ UNCHANGED <<impl, users, carts>>

AddFindOne(p) ==
    /\ CanCall(p)
    /\ \E u \in Users, pid \in ProductIds, q \in Quantities :
         LET cart == FindOne(carts[u])
             r == Request("add", u, pid, q)
         IN req' = [req EXCEPT ![p] =
                      IF cart.idx = 0 THEN [r EXCEPT !.pc = "add_create"]
                      ELSE AddScan(r, cart)]
    /\ pre' = [pre EXCEPT ![p] = Snapshot]
    /\ nops' = nops + 1
    /\ UNCHANGED <<impl, users, carts>>

\* Cart.create without the email: the new cart is everybody's.
AddCreate_SharedCart(p) ==
    /\ req[p].pc = "add_create"
    /\ \E ok \in BOOLEAN :
         LET u == req[p].email
             cart == [idx |-> Len(carts[u]) + 1, cartItems |-> <<>>, v |-> 0]
         IN /\ carts' = IF ok THEN [v \in Users |-> Append(carts[v], NewCartDoc)]
                        ELSE carts
            /\ req' = [req EXCEPT ![p] =
                         IF ok THEN AddScan(@, cart)
                         ELSE Finish(@, "InfraError")]
    /\ UNCHANGED <<impl, users, pre, nops>>

AddCreate(p) ==
    /\ req[p].pc = "add_create"
    /\ \E ok \in BOOLEAN :
         LET u == req[p].email
             cart == [idx |-> Len(carts[u]) + 1, cartItems |-> <<>>, v |-> 0]
         IN /\ carts' = IF ok THEN [carts EXCEPT ![u] = Append(@, NewCartDoc)]
                        ELSE carts
            /\ req' = [req EXCEPT ![p] =
                         IF ok THEN AddScan(@, cart)
                         ELSE Finish(@, "InfraError")]
    /\ UNCHANGED <<impl, users, pre, nops>>

AddSave(p) ==
    /\ req[p].pc = "add_save"
    /\ \E ok \in BOOLEAN :
         LET u == req[p].email
             i == req[p].cart.idx
             item == req[p].cart.cartItems[Len(req[p].cart.cartItems)]
         IN /\ carts' = IF ok
                        THEN [carts EXCEPT ![u][i] =
                                [cartItems |-> Append(@.cartItems, item),
                                 v |-> @.v + 1]]
                        ELSE carts
            /\ req' = [req EXCEPT ![p] =
                         Finish([@ EXCEPT !.cartSave =
                                    IF ok THEN "ok" ELSE "failed"],
                                IF ok THEN "OK" ELSE "InfraError")]
    /\ UNCHANGED <<impl, users, pre, nops>>

(* -------------------------- updateProductInCart ------------------------ *)

\* The index never reset to "not found": a miss acts on the last item.
UpdateIndex_NoMiss(items, pid) ==
    IF Matches(items, pid) = {} THEN Len(items)
    ELSE IF impl = "A" THEN ProductIndexLast(items, pid)
    ELSE ProductIndexFirst(items, pid)

\* The item the update acts on: the last match in copy A, the first in B.
UpdateIndex(items, pid) ==
    IF impl = "A" THEN ProductIndexLast(items, pid)
    ELSE ProductIndexFirst(items, pid)

UpdFindOne(p) ==
    /\ CanCall(p)
    /\ \E u \in Users, pid \in ProductIds, q \in Quantities :
         LET cart == FindOne(carts[u])
             i == UpdateIndex(cart.cartItems, pid)
             r == Request("update", u, pid, q)
         IN req' = [req EXCEPT ![p] =
                      IF cart.idx = 0 THEN Finish(r, "NoCart")
                      ELSE IF FindProduct(pid) = NoProduct
                      THEN Finish([r EXCEPT !.cart = cart], "UnknownProduct")
                      ELSE IF i = 0
                      THEN Finish([r EXCEPT !.cart = cart], "NotInCart")
                      ELSE [r EXCEPT !.pc = "upd_save", !.index = i,
                                     !.cart = [cart EXCEPT !.cartItems =
                                                 SetQuantity(@, i, q)]]]
    /\ pre' = [pre EXCEPT ![p] = Snapshot]
    /\ nops' = nops + 1
    /\ UNCHANGED <<impl, users, carts>>

UpdSave(p) ==
    /\ req[p].pc = "upd_save"
    /\ \E ok \in BOOLEAN :
         LET u == req[p].email
             i == req[p].cart.idx
             fresh == carts[u][i].v = req[p].cart.v
         IN /\ carts' = IF ok /\ fresh
                        THEN [carts EXCEPT ![u][i].cartItems =
                                SetQuantity(@, req[p].index, req[p].quantity)]
                        ELSE carts
            /\ req' = [req EXCEPT ![p] =
                         Finish([@ EXCEPT !.cartSave =
                                    IF ok /\ fresh THEN "ok" ELSE "failed"],
                                IF ~ok THEN "InfraError"
                                ELSE IF ~fresh THEN "VersionError"
                                ELSE "OK")]
    /\ UNCHANGED <<impl, users, pre, nops>>

(* ------------------------- deleteProductFromCart ----------------------- *)

DelFindOne(p) ==
    /\ CanCall(p)
    /\ \E u \in Users, pid \in ProductIds :
         LET cart == FindOne(carts[u])
             i == ProductIndexLast(cart.cartItems, pid)
             r == Request("delete", u, pid, 0)
         IN req' = [req EXCEPT ![p] =
                      IF cart.idx = 0 THEN Finish(r, "NoCart")
                      ELSE IF i = 0
                      THEN Finish([r EXCEPT !.cart = cart], "NotInCart")
                      ELSE IF impl = "A"
                      THEN [r EXCEPT !.pc = "del_save", !.index = i,
                                     !.cart = [cart EXCEPT !.cartItems =
                                                 Splice(@, i)]]
                      ELSE [r EXCEPT !.pc = "del_update", !.cart = cart]]
    /\ pre' = [pre EXCEPT ![p] = Snapshot]
    /\ nops' = nops + 1
    /\ UNCHANGED <<impl, users, carts>>

\* Copy A, with a cart that became empty deleted instead of saved.
DelSave_DropEmpty(p) ==
    /\ req[p].pc = "del_save"
    /\ \E ok \in BOOLEAN :
         LET u == req[p].email
             i == req[p].cart.idx
             fresh == carts[u][i].v = req[p].cart.v
         IN /\ carts' = IF ok /\ fresh
                        THEN IF req[p].cart.cartItems = <<>>
                             THEN [carts EXCEPT ![u] = Splice(@, i)]
                             ELSE [carts EXCEPT ![u][i] =
                                     [cartItems |-> req[p].cart.cartItems,
                                      v |-> @.v + 1]]
                        ELSE carts
            /\ req' = [req EXCEPT ![p] =
                         Finish([@ EXCEPT !.cartSave =
                                    IF ok /\ fresh THEN "ok" ELSE "failed"],
                                IF ~ok THEN "InfraError"
                                ELSE IF ~fresh THEN "VersionError"
                                ELSE "OK")]
    /\ UNCHANGED <<impl, users, pre, nops>>

\* Copy A: await cart.save() after the splice.
DelSave(p) ==
    /\ req[p].pc = "del_save"
    /\ \E ok \in BOOLEAN :
         LET u == req[p].email
             i == req[p].cart.idx
             fresh == carts[u][i].v = req[p].cart.v
         IN /\ carts' = IF ok /\ fresh
                        THEN [carts EXCEPT ![u][i] =
                                [cartItems |-> req[p].cart.cartItems,
                                 v |-> @.v + 1]]
                        ELSE carts
            /\ req' = [req EXCEPT ![p] =
                         Finish([@ EXCEPT !.cartSave =
                                    IF ok /\ fresh THEN "ok" ELSE "failed"],
                                IF ~ok THEN "InfraError"
                                ELSE IF ~fresh THEN "VersionError"
                                ELSE "OK")]
    /\ UNCHANGED <<impl, users, pre, nops>>

\* The items left by Cart.updateOne({email}, {$pull: {"cartItem.product._id":
\* productId}}): the cart has no path "cartItem", so nothing is pulled.
PullCartItem(items, pid) == items

\* Copy B: Cart.updateOne on the first cart of the email.
DelUpdateOne(p) ==
    /\ req[p].pc = "del_update"
    /\ \E ok \in BOOLEAN :
         LET u == req[p].email
         IN /\ carts' = IF ok
                        THEN [carts EXCEPT ![u][1].cartItems =
                                PullCartItem(@, req[p].productId)]
                        ELSE carts
            /\ req' = [req EXCEPT ![p] =
                         Finish([@ EXCEPT !.cartSave =
                                    IF ok THEN "ok" ELSE "failed"],
                                IF ok THEN "OK" ELSE "InfraError")]
    /\ UNCHANGED <<impl, users, pre, nops>>

(* ------------------------------- checkout ------------------------------ *)

\* The caller (the request handler) loads the user document and calls
\* checkout(user); the function's first await follows in ChkFindOne.
CallCheckout(p) ==
    /\ CanCall(p)
    /\ \E u \in Users :
         req' = [req EXCEPT ![p] = Request("checkout", u, "none", 0)]
    /\ pre' = [pre EXCEPT ![p] = Snapshot]
    /\ nops' = nops + 1
    /\ UNCHANGED <<impl, users, carts>>

ChkFindOne(p) ==
    /\ req[p].pc = "checkout"
    /\ LET cart == FindOne(carts[req[p].email])
           gate == CheckoutGate(cart, req[p].user)
       IN req' = [req EXCEPT ![p] =
                    IF gate # "pass" THEN Finish([@ EXCEPT !.cart = cart], gate)
                    ELSE [@ EXCEPT !.pc = "chk_save_user",
                                   !.cart = cart,
                                   !.user.walletMoney =
                                       @ - TotalCost(cart.cartItems)]]
    /\ UNCHANGED <<impl, users, carts, pre, nops>>

\* await user.save(): the pre-save hook, then $set of the changed paths
\* (walletMoney when the assignment changed it, and the password).
ChkSaveUser(p) ==
    /\ req[p].pc = "chk_save_user"
    /\ \E ok \in BOOLEAN :
         LET u == req[p].email
             hashed == PreSaveHash(req[p].user.password)
         IN /\ users' = IF ok
                        THEN [users EXCEPT
                                ![u].walletMoney =
                                    IF TotalCost(req[p].cart.cartItems) # 0
                                    THEN req[p].user.walletMoney ELSE @,
                                ![u].password = hashed]
                        ELSE users
            /\ req' = [req EXCEPT ![p] =
                         [@ EXCEPT !.pc = AfterUserSave(ok),
                                   !.user.password = hashed,
                                   !.userSave = IF ok THEN "ok" ELSE "failed",
                                   !.result = IF ok THEN @ ELSE "InfraError"]]
    /\ UNCHANGED <<impl, carts, pre, nops>>

\* cart.cartItems = []; await cart.save()
ChkSaveCart(p) ==
    /\ req[p].pc = "chk_save_cart"
    /\ \E ok \in BOOLEAN :
         LET u == req[p].email
             i == req[p].cart.idx
             fresh == carts[u][i].v = req[p].cart.v
         IN /\ carts' = IF ok /\ fresh
                        THEN [carts EXCEPT ![u][i] =
                                [cartItems |-> EmptyCartItems(@.cartItems),
                                 v |-> @.v + 1]]
                        ELSE carts
            /\ req' = [req EXCEPT ![p] =
                         Finish([@ EXCEPT !.cartSave =
                                    IF ok /\ fresh THEN "ok" ELSE "failed"],
                                IF ok /\ ~fresh THEN "VersionError"
                                ELSE CheckoutResult(ok))]
    /\ UNCHANGED <<impl, users, pre, nops>>

(* --------------------------- specifications ---------------------------- *)

Step(p) ==
    \/ Return(p)
    \/ getCartByUser(p)
    \/ AddFindOne(p)
    \/ AddCreate(p)
    \/ AddSave(p)
    \/ UpdFindOne(p)
    \/ UpdSave(p)
    \/ DelFindOne(p)
    \/ DelSave(p)
    \/ DelUpdateOne(p)
    \/ CallCheckout(p)
    \/ ChkFindOne(p)
    \/ ChkSaveUser(p)
    \/ ChkSaveCart(p)

\* Requests in flight at the same time, their steps interleaved.
Next == \E p \in Procs : Step(p)

Spec == Init /\ [][Next]_vars

\* One request at a time: each call finishes before the next is issued.
SeqNext == Step(SeqProc)

SeqSpec == Init /\ [][SeqNext]_vars

(* ------------------------------ properties ----------------------------- *)

\* The cart of p's user as Cart.findOne saw it when p's request arrived,
\* and as it is now.
PreCart(p) == FindOne(pre[p].carts[req[p].email])

CurCart(p) == FindOne(carts[req[p].email])

PreUser(p) == pre[p].users[req[p].email]

CurUser(p) == users[req[p].email]

\* p's call of op has returned or thrown.
Done(p, op) == req[p].pc = "done" /\ req[p].op = op

\* Number of lines of items that hold product pid.
Lines(items, pid) == Cardinality(Matches(items, pid))

\* The sum of quantity * cost over items, as the claims state it.
RECURSIVE Sum(_)
Sum(items) ==
    IF items = <<>> THEN 0
    ELSE items[Len(items)].quantity * items[Len(items)].product.cost
         + Sum(SubSeq(items, 1, Len(items) - 1))

\* C1: with the calls executed one after the other, every persisted cart of
\* every user holds at most one line per product, whatever addItem,
\* updateItem and removeItem calls were made.
C1_Uniqueness ==
    \A u \in Users : \A i \in 1..Len(carts[u]) : \A pid \in ProductIds :
        Lines(carts[u][i].cartItems, pid) <= 1

\* A cart of two lines on which an update has just succeeded.
C1_Witness ==
    \E p \in Procs :
        /\ Done(p, "update")
        /\ req[p].result = "OK"
        /\ Len(CurCart(p).cartItems) = 2

\* C2: when checkout(U) succeeds, U's walletMoney is the walletMoney before
\* the call minus the sum of quantity * cost over the cart's items, and it is
\* not negative.
C2_BalanceConservation ==
    \A p \in Procs :
        (Done(p, "checkout") /\ req[p].result = "OK") =>
            /\ CurUser(p).walletMoney =
                 PreUser(p).walletMoney - Sum(PreCart(p).cartItems)
            /\ CurUser(p).walletMoney >= 0

\* A successful checkout of a cart of two lines that cost something.
C2_Witness ==
    \E p \in Procs :
        /\ Done(p, "checkout")
        /\ req[p].result = "OK"
        /\ Len(PreCart(p).cartItems) = 2
        /\ CurUser(p).walletMoney < PreUser(p).walletMoney

\* C3: once checkout(U) has finished, in whatever way, the store is never
\* left with the balance debited and the cart still holding its items, nor
\* with the cart emptied and the balance not debited.
C3_CheckoutAllOrNothing ==
    \A p \in Procs :
        Done(p, "checkout") =>
            LET debited == CurUser(p).walletMoney < PreUser(p).walletMoney
                emptied == /\ PreCart(p).cartItems # <<>>
                           /\ CurCart(p).cartItems = <<>>
            IN /\ ~(debited /\ CurCart(p).cartItems # <<>>)
               /\ ~(emptied /\ ~debited
                      /\ Sum(PreCart(p).cartItems) > 0)

\* C4: in checkout(U), a failed write of the user leaves the persisted cart
\* as it was, and a failed write of the cart after the user was written makes
\* the call fail rather than report success.
C4_WriteFailureReported ==
    \A p \in Procs :
        Done(p, "checkout") =>
            /\ req[p].userSave = "failed" =>
                 /\ CurCart(p) = PreCart(p)
                 /\ req[p].result # "OK"
            /\ (req[p].userSave = "ok" /\ req[p].cartSave = "failed") =>
                 req[p].result # "OK"

\* A checkout whose cart write failed after its user write succeeded.
C4_Witness ==
    \E p \in Procs :
        /\ Done(p, "checkout")
        /\ req[p].userSave = "ok"
        /\ req[p].cartSave = "failed"
        /\ req[p].result = "InfraError"

\* C5: with addItem calls in flight at the same time, no user's cart ever
\* holds two lines for one product.
C5_NoDuplicateLines ==
    \A u \in Users : \A pid \in ProductIds :
        Lines(FindOne(carts[u]).cartItems, pid) <= 1

\* C6: two checkout calls of one user in flight at the same time never both
\* write a debited balance for the same cart content (a cart that costs
\* something, read by both in the same version).
C6_NoDoubleDebit ==
    \A p, q \in Procs :
        (/\ p # q
         /\ req[p].op = "checkout" /\ req[q].op = "checkout"
         /\ req[p].email = req[q].email
         /\ req[p].userSave = "ok" /\ req[q].userSave = "ok"
         /\ Sum(req[p].cart.cartItems) > 0)
        => req[p].cart # req[q].cart

\* C7: addItem(U, P, q) on a cart that already holds P fails with the
\* already-in-cart error and leaves every persisted cart as it was.
C7_AddRejectsDuplicate ==
    \A p \in Procs :
        (/\ Done(p, "add")
         /\ Matches(PreCart(p).cartItems, req[p].productId) # {})
        => /\ req[p].result = "AlreadyInCart"
           /\ carts = pre[p].carts

\* A second add of a product with another quantity was rejected; the cart
\* holds its one line with the first quantity.
C7_Witness ==
    \E p \in Procs :
        /\ Done(p, "add")
        /\ req[p].result = "AlreadyInCart"
        /\ Lines(CurCart(p).cartItems, req[p].productId) = 1
        /\ \A i \in Matches(CurCart(p).cartItems, req[p].productId) :
             /\ CurCart(p).cartItems[i].quantity = MaxQty
             /\ req[p].quantity # MaxQty

\* C8: after a successful checkout(U), U's persisted cart exists and has no
\* items.
C8_CheckoutEmptiesCart ==
    \A p \in Procs :
        (Done(p, "checkout") /\ req[p].result = "OK") =>
            /\ CurCart(p).idx # 0
            /\ CurCart(p).cartItems = <<>>

\* A successful checkout of a cart that held a line.
C8_Witness ==
    \E p \in Procs :
        /\ Done(p, "checkout")
        /\ req[p].result = "OK"
        /\ Len(PreCart(p).cartItems) = 1
        /\ CurCart(p).cartItems = <<>>

\* The cart of p's user held items worth more than the user's walletMoney
\* when p's request arrived.
CartExceedsWallet(p) ==
    /\ PreCart(p).cartItems # <<>>
    /\ Sum(PreCart(p).cartItems) > PreUser(p).walletMoney

\* C9: checkout(U) of a non-empty cart that costs more than U's walletMoney,
\* U's address being set, fails with the insufficient-balance error and
\* changes neither a user nor a cart.
C9_InsufficientBalance ==
    \A p \in Procs :
        (/\ Done(p, "checkout")
         /\ CartExceedsWallet(p)
         /\ PreUser(p).address # DefaultAddress)
        => /\ req[p].result = "InsufficientBalance"
           /\ users = pre[p].users
           /\ carts = pre[p].carts

\* A checkout refused for its balance.
C9_Witness ==
    \E p \in Procs :
        /\ Done(p, "checkout")
        /\ CartExceedsWallet(p)
        /\ PreUser(p).address # DefaultAddress
        /\ req[p].result = "InsufficientBalance"

\* C10: checkout(U) of a non-empty cart that costs more than U's walletMoney,
\* U's address being the default one, fails with the address error.
C10_AddressBeforeBalance ==
    \A p \in Procs :
        (/\ Done(p, "checkout")
         /\ CartExceedsWallet(p)
         /\ PreUser(p).address = DefaultAddress)
        => req[p].result = "AddressNotSet"

\* A checkout refused for its address although the balance was short too.
C10_Witness ==
    \E p \in Procs :
        /\ Done(p, "checkout")
        /\ CartExceedsWallet(p)
        /\ PreUser(p).address = DefaultAddress
        /\ req[p].result = "AddressNotSet"

\* C11: updateItem(U, P, q) on an existing cart that holds no line for P
\* fails with a ValidationError (unknown product or product not in cart) and
\* leaves every persisted record as it was, for every q and for P in or out
\* of the catalog.
C11_UpdateMissingItem ==
    \A p \in Procs :
        (/\ Done(p, "update")
         /\ PreCart(p).idx # 0
         /\ Matches(PreCart(p).cartItems, req[p].productId) = {})
        => /\ req[p].result \in {"UnknownProduct", "NotInCart"}
           /\ req[p].productId \in Catalog => req[p].result = "NotInCart"
           /\ carts = pre[p].carts
           /\ users = pre[p].users

\* An update of a catalog product refused on a cart that holds another
\* product.
C11_Witness ==
    \E p \in Procs :
        /\ Done(p, "update")
        /\ req[p].productId \in Catalog
        /\ Len(PreCart(p).cartItems) = 1
        /\ Matches(PreCart(p).cartItems, req[p].productId) = {}
        /\ req[p].result = "NotInCart"
        /\ CurCart(p) = PreCart(p)

\* C12: a successful removeItem(U, P) leaves U's persisted cart without a
\* line for P, one line shorter, the other lines keeping their quantities
\* and their order.
C12_RemoveExactlyOne ==
    \A p \in Procs :
        (Done(p, "delete") /\ req[p].result = "OK") =>
            LET old == PreCart(p).cartItems
                new == CurCart(p).cartItems
                kept == SelectSeq(old, LAMBDA it :
                                         it.product._id # req[p].productId)
            IN /\ Lines(new, req[p].productId) = 0
               /\ Len(new) = Len(old) - 1
               /\ new = kept

\* C13: getCart(U) fails with NotFound when U has no cart and returns U's
\* cart otherwise; either way no persisted cart or user changes, and no cart
\* is created.
C13_GetCartReadsOnly ==
    \A p \in Procs :
        Done(p, "get") =>
            /\ PreCart(p).idx = 0 => req[p].result = "NotFound"
            /\ PreCart(p).idx # 0 =>
                 /\ req[p].result = "OK"
                 /\ req[p].cart = PreCart(p)
            /\ carts = pre[p].carts
            /\ users = pre[p].users

\* A get refused for a user without a cart, who still has none.
C13_Witness ==
    \E p \in Procs :
        /\ Done(p, "get")
        /\ req[p].result = "NotFound"
        /\ carts[req[p].email] = <<>>

\* The first line of items that holds product pid.
FirstLine(items, pid) ==
    CHOOSE i \in Matches(items, pid) : \A j \in Matches(items, pid) : i <= j

\* items with the quantity of line i overwritten by q.
Overwritten(items, i, q) ==
    [k \in 1..Len(items) |->
        IF k = i THEN [product |-> items[k].product, quantity |-> q]
        ELSE items[k]]

\* items without line i.
Without(items, i) ==
    [k \in 1..(Len(items) - 1) |-> IF k < i THEN items[k] ELSE items[k + 1]]

\* C14: on a stored cart that holds several lines for one product, a
\* successful updateItem overwrites, and a successful removeItem removes, the
\* first of these lines only; no other request being in flight.
C14_FirstMatchOnly ==
    \A p \in Procs :
        (/\ req[p].pc = "done"
         /\ req[p].result = "OK"
         /\ \A o \in Procs \ {p} : req[o].pc = "idle"
         /\ PreCart(p).idx # 0
         /\ Lines(PreCart(p).cartItems, req[p].productId) >= 2)
        => LET old == PreCart(p).cartItems
               first == FirstLine(old, req[p].productId)
           IN /\ req[p].op = "update" =>
                   CurCart(p).cartItems =
                       Overwritten(old, first, req[p].quantity)
              /\ req[p].op = "delete" =>
                   CurCart(p).cartItems = Without(old, first)

\* C15: a successful updateItem(U, P, q) overwrites the quantity of U's
\* line for P with q and changes nothing else: the lines, their order, the
\* other lines' quantities, the other carts and the users stay as they were.
C15_UpdateOverwrites ==
    \A p \in Procs :
        (Done(p, "update") /\ req[p].result = "OK") =>
            LET old == PreCart(p).cartItems
                new == CurCart(p).cartItems
            IN /\ Len(new) = Len(old)
               /\ \A i \in 1..Len(old) :
                    /\ new[i].product = old[i].product
                    /\ new[i].quantity =
                         IF old[i].product._id = req[p].productId
                         THEN req[p].quantity ELSE old[i].quantity
               /\ \A u \in Users \ {req[p].email} :
                    carts[u] = pre[p].carts[u]
               /\ CurCart(p).v = PreCart(p).v
               /\ users = pre[p].users

\* A successful update on a cart of two lines, the old quantity of the line
\* being neither zero nor the new one.
C15_Witness ==
    \E p \in Procs :
        /\ Done(p, "update")
        /\ req[p].result = "OK"
        /\ Len(PreCart(p).cartItems) = 2
        /\ \E i \in Matches(PreCart(p).cartItems, req[p].productId) :
             /\ PreCart(p).cartItems[i].quantity \notin {0, req[p].quantity}
             /\ CurCart(p).cartItems[i].quantity = req[p].quantity

\* C16: a cart of U comes into existence only in a step of an addItem call
\* of U, and a cart that exists is never deleted, whatever the step.
C16_CartLifecycle ==
    [][\A u \in Users :
          /\ Len(carts'[u]) >= Len(carts[u])
          /\ \A i \in 1..Len(carts[u]) : carts'[u][i].v >= carts[u][i].v
          /\ Len(carts'[u]) > Len(carts[u]) =>
               \E p \in Procs : /\ req[p].pc = "add_create"
                                 /\ req[p].op = "add"
                                 /\ req[p].email = u
                                 /\ req'[p] # req[p]]_vars

\* The removal of a cart's only line has succeeded and the cart is still
\* there, empty.
C16_Witness ==
    \E p \in Procs :
        /\ Done(p, "delete")
        /\ req[p].result = "OK"
        /\ Len(PreCart(p).cartItems) = 1
        /\ CurCart(p).idx # 0
        /\ CurCart(p).cartItems = <<>>

\* C17: whatever the interleaving, a step of an operation called for user U
\* changes neither the carts nor the user record of any other user.
C17_OtherUsersUntouched ==
    [][\A p \in Procs :
          req'[p] # req[p] =>
              \A v \in Users \ {req[p].email, req'[p].email} :
                  /\ carts'[v] = carts[v]
                  /\ users'[v] = users[v]]_vars

\* A checkout of one user has succeeded and debited that user while an
\* addItem of another user, whose cart exists, is in flight.
C17_Witness ==
    \E p, o \in Procs :
        /\ Done(p, "checkout")
        /\ req[p].result = "OK"
        /\ CurUser(p).walletMoney < PreUser(p).walletMoney
        /\ req[o].pc = "add_save"
        /\ req[o].email # req[p].email
        /\ carts[req[o].email] # <<>>
        /\ users[req[o].email].walletMoney = InitWallet

\* C18: checkout(U) of a cart that exists and holds no line, which is what a
\* successful checkout leaves until the next addItem, fails with the
\* empty-cart error and changes neither U's walletMoney nor any other stored
\* record: a settled cart is not charged again.
C18_SecondCheckoutRefused ==
    \A p \in Procs :
        (/\ Done(p, "checkout")
         /\ PreCart(p).idx # 0
         /\ PreCart(p).cartItems = <<>>)
        => /\ req[p].result = "EmptyCart"
           /\ users = pre[p].users
           /\ carts = pre[p].carts

\* A checkout refused on the cart that an earlier checkout had settled: the
\* user is already debited, the cart was created, filled and emptied.
C18_Witness ==
    \E p \in Procs :
        /\ Done(p, "checkout")
        /\ req[p].result = "EmptyCart"
        /\ PreCart(p).cartItems = <<>>
        /\ PreCart(p).v = 2
        /\ PreUser(p).walletMoney < InitWallet
        /\ CurUser(p).walletMoney = PreUser(p).walletMoney

\* C19: addItem(U, P, q) for a user without a cart and a product out of the
\* catalog, the creation of the cart having succeeded, fails with the
\* unknown-product error and leaves U with a persisted empty cart; getCart(U)
\* on such a cart returns it, empty, instead of failing.
C19_CartCreatedBeforeLookup ==
    \A p \in Procs :
        /\ (/\ Done(p, "add")
            /\ PreCart(p).idx = 0
            /\ req[p].productId \notin Catalog
            /\ req[p].result # "InfraError")
           => /\ req[p].result = "UnknownProduct"
              /\ CurCart(p).idx # 0
              /\ CurCart(p).cartItems = <<>>
        /\ (/\ Done(p, "get")
            /\ PreCart(p).idx # 0
            /\ PreCart(p).cartItems = <<>>)
           => /\ req[p].result = "OK"
              /\ req[p].cart.idx # 0
              /\ req[p].cart.cartItems = <<>>

\* An add of an unknown product was refused for a user who had no cart and
\* now has an empty one.
C19_Witness ==
    \E p \in Procs :
        /\ Done(p, "add")
        /\ pre[p].carts[req[p].email] = <<>>
        /\ req[p].productId \notin Catalog
        /\ req[p].result = "UnknownProduct"
        /\ Len(carts[req[p].email]) = 1
        /\ CurCart(p).cartItems = <<>>

\* C20: whatever quantities (zero and negative ones included) the addItem,
\* updateItem, removeItem and checkout calls are given, no user's walletMoney
\* is ever negative, above its initial value, or above what it was when the
\* request in progress arrived.
C20_WalletNeverGrows ==
    /\ \A u \in Users : users[u].walletMoney \in 0..InitWallet
    /\ \A p \in Procs :
         req[p].pc # "idle" =>
             CurUser(p).walletMoney <= PreUser(p).walletMoney

\* C21: a successful checkout(U), of a cart whose quantities are positive,
\* changes no field of U's persisted user record other than walletMoney: the
\* address and the stored password hash are what they were, and a password
\* that matched the stored hash before the checkout still matches it
\* afterwards.
C21_CheckoutKeepsPassword ==
    \A p \in Procs :
        (/\ Done(p, "checkout")
         /\ req[p].result = "OK"
         /\ \A i \in 1..Len(PreCart(p).cartItems) :
              PreCart(p).cartItems[i].quantity > 0) =>
            /\ CurUser(p).address = PreUser(p).address
            /\ CurUser(p).password = PreUser(p).password
            /\ IsPasswordMatch(PreUser(p).password) =>
                 IsPasswordMatch(CurUser(p).password)

====
